---- MODULE Spec2Model ----
(***************************************************************************)
(* Model of hyprhist's bounded, cursor-navigable event history             *)
(* (src/src/lib/event_history.rs) and of the navigation/echo protocol      *)
(* around it (src/src/lib/socket.rs).                                      *)
(*                                                                         *)
(* Rust indices are 0-based; the Vec `events` is a TLA+ sequence, so slot  *)
(* idx of the Vec is element idx + 1 of the sequence (see Slot).           *)
(* An item is represented by its identifier (EventItem::get_id).           *)
(* EventStatusCount is write-only bookkeeping (no operation reads it) and  *)
(* is left out.                                                            *)
(***************************************************************************)
EXTENDS Integers, Sequences, FiniteSets, TLC

\* ---------------------------------------------------------------- bounds
MaxCapacity == 3
NumIds == 2
MaxPending == 4
MaxSteps == 6
\* HistorySize conversions: the largest usize argument, the longest string
MaxUsize == 4
MaxStrLen == 3
\* the tasks: client connections, navigation requests, focus notifications
\* of one burst, monitors of the host
NumClients == 2
MaxRequests == 2
MaxBurst == 2
NumMonitors == 1
\* the monitor names that occur in socket paths, the socket files in /tmp
NumSocketMonitors == 3
MaxSockets == 2

Ids == 1..NumIds
\* one identifier more, for the runs over three identifiers
WideIds == 1..(NumIds + 1)
NoId == 0
NoIdx == -1
Diverged == -2

VARIABLES max_size, cursor, head, history_start, static_history, events,
          event_idx_map, ignored_events, fault, last, pre, swallowed,
          back_from, dead, deact_from, removed, phase, pending, steps,
          size_input, size_result,
          adapter, requested_monitors, holders, pc, inbox, window_event_data,
          instruction_of, next_address, requests, arrived, handled, acquired,
          applied, dispatched,
          signals, active_client, started,
          tmp_sockets, socket_step, to_scan, unlinked

vars == <<max_size, cursor, head, history_start, static_history, events,
          event_idx_map, ignored_events, fault, last, pre, swallowed,
          back_from, dead, deact_from, removed, phase, pending, steps,
          size_input, size_result,
          adapter, requested_monitors, holders, pc, inbox, window_event_data,
          instruction_of, next_address, requests, arrived, handled, acquired,
          applied, dispatched,
          signals, active_client, started,
          tmp_sockets, socket_step, to_scan, unlinked>>

hist == <<max_size, cursor, head, history_start, static_history, events,
          event_idx_map, ignored_events, fault>>

\* The argument handed to a HistorySize conversion and what it returned.
sizev == <<size_input, size_result>>

\* The two tasks sharing the history (daemon.rs / hypr_events.rs, socket.rs):
\* the lock, each task's position and locals, and the logs of what happened.
procv == <<adapter, requested_monitors, holders, pc, inbox, window_event_data,
           instruction_of, next_address, requests, arrived, handled, acquired,
           applied, dispatched>>

\* The window focused when the daemon starts (main.rs) and whether the
\* history has been set up from it.
startv == <<active_client, started>>

\* The navigation sockets in /tmp and the start of socket::listen.
sockv == <<tmp_sockets, socket_step, to_scan, unlinked>>

\* The host's reports other than focus changes, the start-up and the sockets.
otherv == <<signals, startv, sockv>>

\* What the calls of the history itself never touch: the number of calls
\* made so far in a run of bounded length, the conversions, the tasks, the
\* start-up and the sockets.
side == <<steps, sizev, procv, otherv>>

\* ------------------------------------------------------------ EventStatus
Active(id) == [st |-> "Active", id |-> id]
Inactive(id) == [st |-> "Inactive", id |-> id]
Deleted == [st |-> "Deleted", id |-> NoId]

EventStatus == {Active(i) : i \in Ids} \cup {Inactive(i) : i \in Ids} \cup {Deleted}

\* events[idx] of the Vec
Slot(ev, idx) == ev[idx + 1]

\* EventStatus::get_event followed by T::get_id; NoId stands for None
get_idx_id(ev, idx) ==
    IF idx >= 0 /\ idx < Len(ev) THEN Slot(ev, idx).id ELSE NoId

\* ---------------------------------------------------------------- traverse
next_idx(ms, current) == IF current = ms - 1 THEN 0 ELSE current + 1

prev_idx(ms, current) == IF current = 0 THEN ms - 1 ELSE current - 1

\* mutant: the scan does not advance
step_idx_stuck(dir, ms, current) == current

step_idx(dir, ms, current) ==
    IF dir = "next" THEN next_idx(ms, current) ELSE prev_idx(ms, current)

in_valid_range(ev, hs, hd, idx) ==
    IF Len(ev) = 0 THEN FALSE
    ELSE IF hs <= hd THEN hs <= idx /\ idx <= hd
         ELSE idx >= hs \/ idx <= hd

\* mutant: the scan stops at any entry that is not a same-identifier repeat,
\* whatever its status
RECURSIVE find_loop_any_status(_, _, _, _, _, _, _, _, _)
find_loop_any_status(ev, hs, hd, ms, initial_id, idx0, stop_idx, dir, fuel) ==
    LET idx == step_idx(dir, ms, idx0) IN
    IF fuel = 0 THEN Diverged
    ELSE IF ~in_valid_range(ev, hs, hd, idx) \/ idx = stop_idx THEN NoIdx
    ELSE IF idx >= Len(ev) THEN NoIdx
    ELSE IF Slot(ev, idx).st = "Active" /\ initial_id # NoId
            /\ Slot(ev, idx).id = initial_id
         THEN find_loop_any_status(ev, hs, hd, ms, initial_id, idx, stop_idx, dir,
                                   fuel - 1)
    ELSE idx

\* The loop of find_next, one iteration per unfolding.  fuel only detects a
\* scan that would run around the ring for ever: the result is then Diverged.
RECURSIVE find_loop(_, _, _, _, _, _, _, _, _)
find_loop(ev, hs, hd, ms, initial_id, idx0, stop_idx, dir, fuel) ==
    LET idx == step_idx(dir, ms, idx0) IN
    IF fuel = 0 THEN Diverged
    ELSE IF ~in_valid_range(ev, hs, hd, idx) \/ idx = stop_idx THEN NoIdx
    ELSE IF idx >= Len(ev) THEN NoIdx
    ELSE IF Slot(ev, idx).st = "Active" /\ initial_id # NoId
            /\ Slot(ev, idx).id = initial_id
         THEN find_loop(ev, hs, hd, ms, initial_id, idx, stop_idx, dir, fuel - 1)
    ELSE IF Slot(ev, idx).st = "Active" THEN idx
    ELSE find_loop(ev, hs, hd, ms, initial_id, idx, stop_idx, dir, fuel - 1)

find_next(ev, hs, hd, ms, current, stop_idx, dir) ==
    find_loop(ev, hs, hd, ms, get_idx_id(ev, current), current, stop_idx, dir, ms + 1)

\* mutant: the scan stops one slot early, at head
next_active_idx_short(ev, hs, hd, ms, current) ==
    IF current = hd THEN NoIdx
    ELSE find_next(ev, hs, hd, ms, current, hd, "next")

next_active_idx(ev, hs, hd, ms, current) ==
    IF current = hd THEN NoIdx
    ELSE find_next(ev, hs, hd, ms, current, next_idx(ms, hd), "next")

\* mutant: the scan stops one slot early, at history_start
prev_active_idx_short(ev, hs, hd, ms, current) ==
    IF current = hs THEN NoIdx
    ELSE find_next(ev, hs, hd, ms, current, hs, "prev")

prev_active_idx(ev, hs, hd, ms, current) ==
    IF current = hs THEN NoIdx
    ELSE find_next(ev, hs, hd, ms, current, prev_idx(ms, hs), "prev")

\* ------------------------------------------------- the history as a sequence
\* The slots from history_start to head in ring order, oldest first:
\* position 1 is the oldest entry, position HistLen the tail.
Dist(ms, a, b) == (b - a + ms) % ms

HistLen(ev, hs, hd, ms) == IF Len(ev) = 0 THEN 0 ELSE Dist(ms, hs, hd) + 1

HistSlot(hs, ms, k) == (hs + k - 1) % ms

Missing == [st |-> "Missing", id |-> NoId]

History(ev, hs, hd, ms) ==
    [k \in 1..HistLen(ev, hs, hd, ms) |->
        IF HistSlot(hs, ms, k) < Len(ev) THEN Slot(ev, HistSlot(hs, ms, k)) ELSE Missing]

\* ------------------------------------------------------------------ ghost
\* last records the call that produced the current state: its name, its
\* argument, what it returned (NoId for None) and the branch it took.
NoCall == [op |-> "new", id |-> NoId, ret |-> NoId, branch |-> "none"]

Call(op, id, ret, branch) == [op |-> op, id |-> id, ret |-> ret, branch |-> branch]

\* pre is the history as it was when that call started.
Snap ==
    [cursor |-> cursor, head |-> head, history_start |-> history_start,
     static_history |-> static_history, events |-> events,
     event_idx_map |-> event_idx_map, ignored_events |-> ignored_events,
     swallowed |-> swallowed, back_from |-> back_from]

\* back_from: the cursor a successful backward() has just left, NoIdx after
\* any other call.  dead: the slots whose entry was dropped by the truncation
\* of add() (the slots after the cursor up to head) and not overwritten since.
\* deact_from: the entries as they were before the deactivate() that has just
\* changed them, kept through an activate() of the same identifier that
\* follows it directly, empty otherwise.  removed: for each slot, the
\* identifier whose remove() made it a tombstone, NoId once add() has
\* overwritten the slot.
Dropped ==
    {HistSlot(history_start, max_size, k) :
        k \in (Dist(max_size, history_start, cursor) + 2)
              ..HistLen(events, history_start, head, max_size)}

Track ==
    /\ back_from' = IF last'.op = "backward" /\ last'.ret # NoId THEN cursor ELSE NoIdx
    /\ dead' = IF last'.branch = "inserted"
               THEN (dead \cup Dropped) \ {cursor'}
               ELSE dead
    /\ deact_from' =
           IF last'.op = "deactivate" /\ last'.branch = "changed" THEN events
           ELSE IF /\ last'.op = "activate"
                   /\ last.op = "deactivate"
                   /\ last.branch = "changed"
                   /\ last.id = last'.id
                THEN deact_from
                ELSE <<>>
    /\ removed' =
           [i \in DOMAIN removed |->
               IF last'.op = "remove" /\ i \in event_idx_map[last'.id] THEN last'.id
               ELSE IF last'.branch = "inserted" /\ i = cursor' THEN NoId
               ELSE removed[i]]

\* swallowed: the identifiers whose add() was swallowed by the Ignore-Set and
\* on which no navigation step has landed since.

\* ------------------------------------------------------------------- new
InitHistory ==
    /\ max_size \in 1..MaxCapacity
    /\ cursor = 0
    /\ head = 0
    /\ history_start = 0
    /\ static_history = TRUE
    /\ events = <<>>
    /\ event_idx_map = [i \in WideIds |-> {}]
    /\ ignored_events = {}
    /\ fault = "none"
    /\ last = NoCall
    /\ pre = [cursor |-> 0, head |-> 0, history_start |-> 0,
              static_history |-> TRUE, events |-> <<>>,
              event_idx_map |-> [i \in WideIds |-> {}], ignored_events |-> {},
              swallowed |-> {}, back_from |-> NoIdx]
    /\ swallowed = {}
    /\ back_from = NoIdx
    /\ dead = {}
    /\ deact_from = <<>>
    /\ removed = [i \in 0..(max_size - 1) |-> NoId]
    /\ phase = "free"
    /\ pending = <<>>
    /\ steps = 0

\* no HistorySize conversion asked for
NoInput == [kind |-> "none", n |-> 0, s |-> <<>>]
NoResult == [tag |-> "none", n |-> 0]

InitNoSize ==
    /\ size_input = NoInput
    /\ size_result = NoResult

\* The tasks of the daemon (main.rs try_join!): the event feed, a single task
\* whose handler runs once per notification, and one task per client
\* connection (socket.rs listen, tokio::spawn).
Feed == 0
Clients == 1..NumClients
Tasks == {Feed} \cup Clients

Monitors == 1..NumMonitors
NoMonitor == 0

\* maybe_window_event_data and the monitor found for it
NoEvent == [id |-> NoId, monitor |-> NoMonitor, query |-> "none"]

InitTasks ==
    /\ holders = {}
    /\ pc = [p \in Tasks |-> "idle"]
    /\ inbox = <<>>
    /\ window_event_data = NoEvent
    /\ instruction_of = [c \in Clients |-> "none"]
    /\ next_address = [c \in Clients |-> NoId]
    /\ requests = 0
    /\ arrived = <<>>
    /\ handled = <<>>
    /\ acquired = <<>>
    /\ applied = <<>>
    /\ dispatched = <<>>

\* the daemon is up: the history has been set up, the socket is bound
InitOther ==
    /\ signals = <<>>
    /\ active_client = NoEvent
    /\ started = TRUE
    /\ tmp_sockets = {requested_monitors}
    /\ socket_step = "listening"
    /\ to_scan = {}
    /\ unlinked = <<>>

Init ==
    /\ InitHistory
    /\ InitNoSize
    /\ adapter = "daemon"
    /\ requested_monitors = {}
    /\ InitTasks
    /\ InitOther

\* -------------------------------------------------------------------- add
\* The event that add() writes: the slot next to the cursor, or slot 0 of an
\* empty buffer.
\* mutant: the slot after the cursor without the wrap-around
insert_idx_nowrap(ev, ms, cur) == IF Len(ev) = 0 THEN 0 ELSE cur + 1

insert_idx_of(ev, ms, cur) == IF Len(ev) = 0 THEN 0 ELSE next_idx(ms, cur)

\* history_start after the detached-cursor adjustment of add()
detached_start(hs, hd, cur, st, ms) ==
    IF hd # cur /\ ~st THEN next_idx(ms, hd) ELSE hs

\* event_idx_map after add(): insert_idx leaves the set of the slot's previous
\* occupant and joins the set of the new item.  A key that is absent from the
\* mutant: the slot's previous identifier keeps the overwritten slot
map_after_add_keep_stale(map, ev, insert_idx, item_id) ==
    [map EXCEPT ![item_id] = @ \cup {insert_idx}]

\* mutant: only an Active previous entry gives its slot up
map_after_add_active_only(map, ev, insert_idx, item_id) ==
    LET m1 == IF insert_idx < Len(ev) /\ Slot(ev, insert_idx).st = "Active"
              THEN [map EXCEPT ![Slot(ev, insert_idx).id] = @ \ {insert_idx}]
              ELSE map
    IN [m1 EXCEPT ![item_id] = @ \cup {insert_idx}]

\* mutant: the new entry's slot is not recorded
map_after_add_forget(map, ev, insert_idx, item_id) ==
    IF get_idx_id(ev, insert_idx) # NoId
    THEN [map EXCEPT ![get_idx_id(ev, insert_idx)] = @ \ {insert_idx}]
    ELSE map

\* HashMap is a key mapped to {} here (add() removes a set that became empty).
map_after_add(map, ev, insert_idx, item_id) ==
    LET prev_id == get_idx_id(ev, insert_idx)
        m1 == IF prev_id # NoId
              THEN [map EXCEPT ![prev_id] = @ \ {insert_idx}]
              ELSE map
    IN [m1 EXCEPT ![item_id] = @ \cup {insert_idx}]

\* mutant: history_start never follows the head that caught up with it
start_never_advanced(hs1, insert_idx, len, ms) == hs1

\* mutant: a full buffer always pushes history_start on
start_advanced_when_full(hs1, insert_idx, len, ms) ==
    IF len = ms THEN next_idx(ms, hs1) ELSE hs1

\* history_start once the new head is known: a head that caught up with
\* history_start in a full buffer pushes it one slot on.
start_after_catch_up(hs1, insert_idx, len, ms) ==
    IF len = ms /\ insert_idx = hs1 THEN next_idx(ms, hs1) ELSE hs1

\* mutant: a slot that is already filled keeps its entry
events_after_add_keep(ev, insert_idx, item_id) ==
    IF insert_idx = Len(ev) THEN Append(ev, Active(item_id)) ELSE ev

events_after_add(ev, insert_idx, item_id) ==
    IF insert_idx = Len(ev) THEN Append(ev, Active(item_id))
    ELSE [ev EXCEPT ![insert_idx + 1] = Active(item_id)]

\* mutant: the newest element of the Vec is compared, not the cursor's
is_duplicate_of_last(ev, cur, item_id) ==
    /\ Len(ev) > 0
    /\ Slot(ev, Len(ev) - 1) = Active(item_id)

\* mutant: any Active entry of the identifier makes the item a duplicate
is_duplicate_anywhere(ev, cur, item_id) ==
    \E i \in 1..Len(ev) : ev[i] = Active(item_id)

is_duplicate_item(ev, cur, item_id) ==
    /\ cur < Len(ev)
    /\ Slot(ev, cur) = Active(item_id)

\* mutant: swallowing one identifier empties the Ignore-Set
ignored_cleared(ign, item_id) == {}

\* mutant: a swallowed identifier stays in the Ignore-Set
ignored_kept(ign, item_id) == ign

\* ignored_events.remove(item.get_id())
ignored_after_add(ign, item_id) == ign \ {item_id}

AddCall(item, op) ==
    IF item \in ignored_events THEN
        /\ ignored_events' = ignored_after_add(ignored_events, item)
        /\ swallowed' = swallowed \cup {item}
        /\ last' = Call(op, item, NoId, "ignored")
        /\ UNCHANGED <<max_size, cursor, head, history_start, static_history,
                       events, event_idx_map, fault>>
    ELSE IF is_duplicate_item(events, cursor, item) THEN
        /\ last' = Call(op, item, NoId, "duplicate")
        /\ UNCHANGED <<hist, swallowed>>
    ELSE
        LET hs1 == detached_start(history_start, head, cursor, static_history, max_size)
            insert_idx == insert_idx_of(events, max_size, cursor)
            buffer_full == Len(events) = max_size
            catches_up == buffer_full /\ insert_idx = hs1
        IN /\ cursor' = insert_idx
           /\ head' = insert_idx
           /\ static_history' = IF catches_up THEN FALSE ELSE static_history
           /\ history_start' =
                 start_after_catch_up(hs1, insert_idx, Len(events), max_size)
           /\ event_idx_map' = map_after_add(event_idx_map, events, insert_idx, item)
           /\ events' = events_after_add(events, insert_idx, item)
           /\ last' = Call(op, item, item, "inserted")
           /\ UNCHANGED <<max_size, ignored_events, fault, swallowed>>

Add(item) ==
    /\ fault = "none"
    /\ phase = "free"
    /\ AddCall(item, "add")
    /\ pre' = Snap
    /\ Track
    /\ UNCHANGED <<phase, pending>>
    /\ UNCHANGED side

\* ------------------------------------------------------ forward / backward
\* mutant: navigation does not record where it landed
ignored_not_recorded(ign, landed_id) == ign

\* ignored_events.insert(current_event.get_id().clone())
ignored_after_nav(ign, landed_id) == ign \cup {landed_id}

NavCall(new_cursor_position, op) ==
    IF new_cursor_position = Diverged THEN
        /\ fault' = "hang"
        /\ last' = Call(op, NoId, NoId, "hang")
        /\ UNCHANGED <<max_size, cursor, head, history_start, static_history,
                       events, event_idx_map, ignored_events, swallowed>>
    ELSE IF new_cursor_position = NoIdx THEN
        /\ last' = Call(op, NoId, NoId, "none")
        /\ UNCHANGED <<hist, swallowed>>
    ELSE IF Slot(events, new_cursor_position).st = "Deleted" THEN
        \* get_event()? returns None after the cursor has moved
        /\ cursor' = new_cursor_position
        /\ last' = Call(op, NoId, NoId, "none")
        /\ UNCHANGED <<max_size, head, history_start, static_history,
                       events, event_idx_map, ignored_events, fault, swallowed>>
    ELSE
        /\ cursor' = new_cursor_position
        /\ ignored_events' =
              ignored_after_nav(ignored_events, Slot(events, new_cursor_position).id)
        /\ swallowed' = swallowed \ {Slot(events, new_cursor_position).id}
        /\ last' = Call(op, NoId, Slot(events, new_cursor_position).id, "moved")
        /\ UNCHANGED <<max_size, head, history_start, static_history,
                       events, event_idx_map, fault>>

Forward ==
    /\ fault = "none"
    /\ phase = "free"
    /\ NavCall(next_active_idx(events, history_start, head, max_size, cursor), "forward")
    /\ pre' = Snap
    /\ Track
    /\ UNCHANGED <<phase, pending>>
    /\ UNCHANGED side

Backward ==
    /\ fault = "none"
    /\ phase = "free"
    /\ NavCall(prev_active_idx(events, history_start, head, max_size, cursor), "backward")
    /\ pre' = Snap
    /\ Track
    /\ UNCHANGED <<phase, pending>>
    /\ UNCHANGED side

\* ------------------------------------------- remove / deactivate / activate
\* Cursor realignment shared by remove() and deactivate(): only when the
\* cursor's slot was among the changed ones and an earlier Active entry with
\* another identifier exists.
\* mutant: step back one slot without looking at the valid range
realigned_cursor_blind(ev, hs, hd, ms, cur, idxs) ==
    IF cur \in idxs THEN prev_idx(ms, cur) ELSE cur

\* mutant: the cursor is never realigned
realigned_cursor_never(ev, hs, hd, ms, cur, idxs) == cur

\* mutant: the cursor is realigned whether or not its slot was changed
realigned_cursor_always(ev, hs, hd, ms, cur, idxs) ==
    LET prev_active == prev_active_idx(ev, hs, hd, ms, cur)
    IN IF prev_active >= 0 THEN prev_active ELSE cur

realigned_cursor(ev, hs, hd, ms, cur, idxs) ==
    LET prev_active == prev_active_idx(ev, hs, hd, ms, cur)
    IN IF cur \in idxs /\ prev_active >= 0 THEN prev_active ELSE cur

\* mutant: only Active entries become tombstones
events_after_remove_active_only(ev, idxs) ==
    [i \in 1..Len(ev) |->
        IF (i - 1) \in idxs /\ ev[i].st = "Active" THEN Deleted ELSE ev[i]]

events_after_remove(ev, idxs) ==
    [i \in 1..Len(ev) |-> IF (i - 1) \in idxs THEN Deleted ELSE ev[i]]

\* mutant: only the oldest recorded slot of the identifier is deactivated
events_after_deactivate_first(ev, idxs) ==
    LET first == CHOOSE i \in idxs : \A j \in idxs : i <= j
    IN [i \in 1..Len(ev) |->
           IF (i - 1) = first /\ ev[i].st = "Active"
           THEN Inactive(ev[i].id) ELSE ev[i]]

\* mutant: only the newest recorded slot of the identifier is activated
events_after_activate_last(ev, idxs) ==
    LET newest == CHOOSE i \in idxs : \A j \in idxs : j <= i
    IN [i \in 1..Len(ev) |->
           IF (i - 1) = newest /\ ev[i].st = "Inactive"
           THEN Active(ev[i].id) ELSE ev[i]]

events_after_deactivate(ev, idxs) ==
    [i \in 1..Len(ev) |->
        IF (i - 1) \in idxs /\ ev[i].st = "Active" THEN Inactive(ev[i].id) ELSE ev[i]]

events_after_activate(ev, idxs) ==
    [i \in 1..Len(ev) |->
        IF (i - 1) \in idxs /\ ev[i].st = "Inactive" THEN Active(ev[i].id) ELSE ev[i]]

\* deactivate() and activate() panic on a Deleted slot among those they toggle
hits_deleted(ev, idxs) == \E idx \in idxs : Slot(ev, idx).st = "Deleted"

\* mutant: the identifier's indices stay recorded after remove()
map_kept_after_remove(map, id) == map

\* event_idx_map.remove(id)
map_after_remove(map, id) == [map EXCEPT ![id] = {}]

RemoveCall(id) ==
       LET idxs == event_idx_map[id]
           ev1 == events_after_remove(events, idxs)
       IN IF idxs = {} THEN
              /\ last' = Call("remove", id, NoId, "nomatch")
              /\ UNCHANGED hist
          ELSE
              /\ event_idx_map' = map_after_remove(event_idx_map, id)
              /\ events' = ev1
              /\ cursor' = realigned_cursor(ev1, history_start, head, max_size, cursor, idxs)
              /\ last' = Call("remove", id, NoId, "changed")
              /\ UNCHANGED <<max_size, head, history_start, static_history,
                             ignored_events, fault>>

Remove(id) ==
    /\ fault = "none"
    /\ phase = "free"
    /\ RemoveCall(id)
    /\ pre' = Snap
    /\ Track
    /\ UNCHANGED <<phase, pending, swallowed>>
    /\ UNCHANGED side

DeactivateCall(id) ==
       LET idxs == event_idx_map[id]
           ev1 == events_after_deactivate(events, idxs)
       IN IF idxs = {} THEN
              /\ last' = Call("deactivate", id, NoId, "nomatch")
              /\ UNCHANGED hist
          ELSE IF hits_deleted(events, idxs) THEN
              /\ fault' = "panic"
              /\ last' = Call("deactivate", id, NoId, "panic")
              /\ UNCHANGED <<max_size, cursor, head, history_start, static_history,
                             events, event_idx_map, ignored_events>>
          ELSE
              /\ events' = ev1
              /\ cursor' = realigned_cursor(ev1, history_start, head, max_size, cursor, idxs)
              /\ last' = Call("deactivate", id, NoId, "changed")
              /\ UNCHANGED <<max_size, head, history_start, static_history,
                             event_idx_map, ignored_events, fault>>

Deactivate(id) ==
    /\ fault = "none"
    /\ phase = "free"
    /\ DeactivateCall(id)
    /\ pre' = Snap
    /\ Track
    /\ UNCHANGED <<phase, pending, swallowed>>
    /\ UNCHANGED side

ActivateCall(id) ==
       LET idxs == event_idx_map[id]
       IN IF idxs = {} THEN
              /\ last' = Call("activate", id, NoId, "nomatch")
              /\ UNCHANGED hist
          ELSE IF hits_deleted(events, idxs) THEN
              /\ fault' = "panic"
              /\ last' = Call("activate", id, NoId, "panic")
              /\ UNCHANGED <<max_size, cursor, head, history_start, static_history,
                             events, event_idx_map, ignored_events>>
          ELSE
              /\ events' = events_after_activate(events, idxs)
              /\ last' = Call("activate", id, NoId, "changed")
              /\ UNCHANGED <<max_size, cursor, head, history_start, static_history,
                             event_idx_map, ignored_events, fault>>

Activate(id) ==
    /\ fault = "none"
    /\ phase = "free"
    /\ ActivateCall(id)
    /\ pre' = Snap
    /\ Track
    /\ UNCHANGED <<phase, pending, swallowed>>
    /\ UNCHANGED side

Next ==
    \/ \E item \in Ids : Add(item)
    \/ Forward
    \/ Backward
    \/ \E id \in Ids : Remove(id)
    \/ \E id \in Ids : Deactivate(id)
    \/ \E id \in Ids : Activate(id)

Spec == Init /\ [][Next]_vars

\* ======================================================================
\* The same calls over three identifiers, in runs of at most MaxSteps calls.
\* ======================================================================
Counted(call) ==
    /\ fault = "none"
    /\ phase = "free"
    /\ steps < MaxSteps
    /\ call
    /\ steps' = steps + 1
    /\ pre' = Snap
    /\ Track
    /\ UNCHANGED <<phase, pending, sizev, procv, otherv>>

WideAdd(item) == Counted(AddCall(item, "add"))

WideForward ==
    Counted(NavCall(next_active_idx(events, history_start, head, max_size, cursor),
                    "forward"))

WideBackward ==
    Counted(NavCall(prev_active_idx(events, history_start, head, max_size, cursor),
                    "backward"))

WideRemove(id) == Counted(RemoveCall(id) /\ UNCHANGED swallowed)

WideDeactivate(id) == Counted(DeactivateCall(id) /\ UNCHANGED swallowed)

WideActivate(id) == Counted(ActivateCall(id) /\ UNCHANGED swallowed)

NextWide ==
    \/ \E item \in WideIds : WideAdd(item)
    \/ WideForward
    \/ WideBackward
    \/ \E id \in WideIds : WideRemove(id)
    \/ \E id \in WideIds : WideDeactivate(id)
    \/ \E id \in WideIds : WideActivate(id)

SpecWide == Init /\ [][NextWide]_vars

\* ======================================================================
\* Navigation requests and their echoes (socket.rs navigate_focus_history):
\* every forward()/backward() that returned an identifier makes the adapter
\* issue a focus command for it, which the host reports back as a focus
\* notification, that is an add() of the same identifier.  pending holds the
\* echoes still owed, in navigation order.  The history is first built by
\* ordinary calls (phase "free"); from StartNavigation on (phase "nav") only
\* navigation requests and echoes happen.
\* ======================================================================
StartNavigation ==
    /\ fault = "none"
    /\ phase = "free"
    /\ Len(events) > 0
    /\ phase' = "nav"
    /\ UNCHANGED <<hist, last, pre, swallowed, back_from, dead, deact_from, removed,
                   pending>>
    /\ UNCHANGED side

NavRequest(instruction) ==
    /\ fault = "none"
    /\ phase = "nav"
    /\ Len(pending) < MaxPending
    /\ IF instruction = "next"
       THEN NavCall(next_active_idx(events, history_start, head, max_size, cursor),
                    "forward")
       ELSE NavCall(prev_active_idx(events, history_start, head, max_size, cursor),
                    "backward")
    /\ pre' = Snap
    /\ Track
    /\ pending' = IF last'.ret # NoId THEN Append(pending, last'.ret) ELSE pending
    /\ UNCHANGED phase
    /\ UNCHANGED side

Echo ==
    /\ fault = "none"
    /\ phase = "nav"
    /\ pending # <<>>
    /\ AddCall(Head(pending), "echo")
    /\ pre' = Snap
    /\ Track
    /\ pending' = Tail(pending)
    /\ UNCHANGED phase
    /\ UNCHANGED side

NextEcho ==
    \/ \E item \in Ids : Add(item)
    \/ \E id \in Ids : Remove(id)
    \/ \E id \in Ids : Deactivate(id)
    \/ \E id \in Ids : Activate(id)
    \/ StartNavigation
    \/ \E instruction \in {"next", "prev"} : NavRequest(instruction)
    \/ Echo

SpecEcho == Init /\ [][NextEcho]_vars

\* ======================================================================
\* The history as a sequence: the slots from history_start to head in ring
\* order, oldest first.  Position 1 is the oldest entry, position
\* HistLen the tail.
\* ======================================================================
NowLen == HistLen(events, history_start, head, max_size)
NowHist == History(events, history_start, head, max_size)
NowPos == Dist(max_size, history_start, cursor) + 1

PreLen == HistLen(pre.events, pre.history_start, pre.head, max_size)
PreHist == History(pre.events, pre.history_start, pre.head, max_size)
PrePos == Dist(max_size, pre.history_start, pre.cursor) + 1

Inserted == last.op \in {"add", "echo"} /\ last.branch = "inserted"

\* C1: after any sequence of calls the history holds at most Capacity
\* entries: the backing buffer never grows beyond max_size, and the slots
\* from history_start to head are at most max_size slots of that buffer.
C1_LengthAtMostCapacity ==
    /\ Len(events) <= max_size
    /\ NowLen <= max_size
    /\ \A k \in 1..NowLen : HistSlot(history_start, max_size, k) < Len(events)

\* C1 witness: an add() into a history that already held Capacity entries.
C1_Witness ==
    /\ Inserted
    /\ max_size = MaxCapacity
    /\ PreLen = max_size
    /\ NowLen = max_size
    /\ Len(events) = max_size

\* C2: whenever the history is non-empty the cursor is one of the slots from
\* history_start to head (so it is never beyond head) and the slot exists.
C2_CursorInHistory ==
    Len(events) > 0 =>
        /\ cursor < Len(events)
        /\ \E k \in 1..NowLen : cursor = HistSlot(history_start, max_size, k)

\* C2 witness: the ring has wrapped and a remove() realigned the cursor.
C2_Witness ==
    /\ history_start > head
    /\ last.op = "remove"
    /\ cursor # pre.cursor

\* The positions (in the history) that repeated backward() calls return,
\* starting from cursor cur, until backward() returns nothing.
RECURSIVE BackwardChain(_, _, _, _, _, _)
BackwardChain(ev, hs, hd, ms, cur, fuel) ==
    LET n == prev_active_idx(ev, hs, hd, ms, cur)
    IN IF n < 0 \/ fuel = 0 THEN <<>>
       ELSE <<Dist(ms, hs, n) + 1>> \o BackwardChain(ev, hs, hd, ms, n, fuel - 1)

NowBackwardChain ==
    BackwardChain(events, history_start, head, max_size, cursor, max_size)

\* Every Active position below p, newest first.
RECURSIVE ActiveBelow(_, _)
ActiveBelow(H, p) ==
    IF p <= 1 THEN <<>>
    ELSE IF H[p - 1].st = "Active" THEN <<p - 1>> \o ActiveBelow(H, p - 1)
    ELSE ActiveBelow(H, p - 1)

\* q is a navigation target seen from p: Active, with another identifier
\* than the entry at p (a Deleted entry at p has no identifier).
Qualifies(H, p, q) ==
    /\ H[q].st = "Active"
    /\ (H[p].id = NoId \/ H[q].id # H[p].id)

NearestBelow(H, p) ==
    LET S == {q \in 1..(p - 1) : Qualifies(H, p, q)}
    IN IF S = {} THEN 0 ELSE CHOOSE q \in S : \A r \in S : r <= q

NearestAbove(H, p) ==
    LET S == {q \in (p + 1)..Len(H) : Qualifies(H, p, q)}
    IN IF S = {} THEN 0 ELSE CHOOSE q \in S : \A r \in S : q <= r

\* The positions below p reached by stepping each time to the nearest
\* qualifying position.
RECURSIVE DistinctBelow(_, _)
DistinctBelow(H, p) ==
    LET q == NearestBelow(H, p)
    IN IF q = 0 THEN <<>> ELSE <<q>> \o DistinctBelow(H, q)

FullAtTail == Inserted /\ PreLen = max_size /\ pre.cursor = pre.head

\* C3 (as amended): an add() that inserts into a history of Capacity entries
\* with the cursor at the tail evicts exactly the oldest entry: the history is
\* the previous one without its first entry followed by the new Active entry,
\* the cursor is on the new entry, and repeated backward() calls return the
\* older Active entries newest first, leaving out at each step those with the
\* identifier of the entry the cursor is on, and then nothing.
C3_EvictOldestAtTail ==
    FullAtTail =>
        /\ NowHist = Tail(PreHist) \o <<Active(last.id)>>
        /\ cursor = head
        /\ NowPos = NowLen
        /\ NowBackwardChain = DistinctBelow(NowHist, NowLen)

\* C3 witness: such an add() into a history of three entries, after which
\* backward() can step twice.
C3_Witness ==
    /\ FullAtTail
    /\ max_size = 3
    /\ Len(NowBackwardChain) = 2

\* C3 as claimed: the backward() calls return every older Active entry.
C3_Original ==
    FullAtTail =>
        /\ NowHist = Tail(PreHist) \o <<Active(last.id)>>
        /\ cursor = head
        /\ NowBackwardChain = ActiveBelow(NowHist, NowLen)

Min(a, b) == IF a <= b THEN a ELSE b

\* C4 as claimed: the oldest entry is evicted first (the cursor following the
\* shift), then the entries after the cursor are dropped, then the new entry
\* is appended.
C4_Original ==
    (Inserted /\ PreLen = max_size) =>
        LET keep == IF PrePos > 1 THEN PrePos - 1 ELSE Min(1, PreLen - 1)
        IN NowHist = SubSeq(Tail(PreHist), 1, keep) \o <<Active(last.id)>>

\* C4 (as amended): an add() that inserts into a history of Capacity entries
\* evicts the oldest entry, and only it, when the cursor is at the tail; when
\* the cursor is not at the tail nothing is evicted: the entries after the
\* cursor are dropped and the new entry follows the cursor's entry, the
\* oldest entry staying in the history.
C4_EvictOnlyAtTail ==
    (Inserted /\ PreLen = max_size) =>
        /\ NowHist = (IF pre.cursor = pre.head THEN Tail(PreHist)
                      ELSE SubSeq(PreHist, 1, PrePos)) \o <<Active(last.id)>>
        /\ cursor = head

\* C4 witness: an add() into a full, wrapped history with the cursor detached.
C4_Witness ==
    /\ Inserted
    /\ PreLen = max_size
    /\ pre.cursor # pre.head
    /\ ~pre.static_history
    /\ NowLen >= 2

IsAdd == last.op \in {"add", "echo"}

\* C5: add(x) while the entry at the cursor is Active with x's identifier
\* and x is not in the Ignore-Set returns nothing and changes nothing.
C5_DuplicateAtCursorIsNoOp ==
    (/\ IsAdd
     /\ last.id \notin pre.ignored_events
     /\ pre.cursor < Len(pre.events)
     /\ Slot(pre.events, pre.cursor) = Active(last.id)) =>
        /\ last.ret = NoId
        /\ events = pre.events
        /\ NowHist = PreHist
        /\ cursor = pre.cursor
        /\ head = pre.head
        /\ history_start = pre.history_start
        /\ ignored_events = pre.ignored_events

\* C5 witness: such an add() with the cursor detached from head.
C5_Witness ==
    /\ IsAdd
    /\ last.branch = "duplicate"
    /\ Slot(pre.events, pre.cursor) = Active(last.id)
    /\ cursor # head

\* C6: a forward()/backward() that returns identifier I leaves I in the
\* Ignore-Set; I stays there until an add(I); and an add(I) that finds I in
\* the Ignore-Set returns nothing, takes I out of the set and leaves the
\* entries, the length and the cursor unchanged.
C6_NextAddIsSwallowed ==
    /\ (last.op \in {"forward", "backward"} /\ last.ret # NoId) =>
            last.ret \in ignored_events
    /\ \A i \in pre.ignored_events : i \in ignored_events \/ (IsAdd /\ last.id = i)
    /\ (IsAdd /\ last.id \in pre.ignored_events) =>
            /\ last.ret = NoId
            /\ ignored_events = pre.ignored_events \ {last.id}
            /\ events = pre.events
            /\ NowHist = PreHist
            /\ cursor = pre.cursor

\* C6 witness: an add(I) is swallowed after the cursor has moved on to an
\* entry of another identifier, away from head.
C6_Witness ==
    /\ last.op = "add"
    /\ last.branch = "ignored"
    /\ cursor # head
    /\ pre.events # <<>>
    /\ Slot(pre.events, pre.cursor).st = "Active"
    /\ Slot(pre.events, pre.cursor).id # last.id

\* C7: the suppression is single-shot: an identifier whose add() was
\* swallowed is out of the Ignore-Set until navigation lands on it again, so
\* a further add() of it is not swallowed, and it inserts a new Active
\* entry at the tail and returns the item unless the entry at the cursor is
\* an Active entry with that identifier.
C7_SuppressionSingleShot ==
    /\ swallowed \cap ignored_events = {}
    /\ (IsAdd /\ last.id \in pre.swallowed) =>
            /\ last.branch # "ignored"
            /\ ~is_duplicate_item(pre.events, pre.cursor, last.id) =>
                    /\ last.ret = last.id
                    /\ NowLen > 0
                    /\ NowHist[NowLen] = Active(last.id)
                    /\ cursor = head

\* C7 witness: the second add() of a swallowed identifier inserts.
C7_Witness ==
    /\ last.op = "add"
    /\ last.id \in pre.swallowed
    /\ last.branch = "inserted"

\* C8 as claimed: every echo is swallowed: it returns nothing and changes
\* neither the entries nor the cursor.
C8_EveryEchoSwallowed ==
    last.op = "echo" =>
        /\ last.ret = NoId
        /\ events = pre.events
        /\ cursor = pre.cursor

Returned == last.branch \in {"moved", "none"}

\* C9: forward() returns the item of the first entry strictly after the
\* cursor, toward the tail and within the history, that is Active with an
\* identifier other than that of the cursor's entry, and moves the cursor to
\* it; it returns an item only if there is such an entry.
C9_ForwardFindsNearestLater ==
    (last.op = "forward" /\ Returned) =>
        LET q == NearestAbove(PreHist, PrePos)
        IN /\ q # 0 =>
                /\ last.ret = PreHist[q].id
                /\ cursor = HistSlot(pre.history_start, max_size, q)
                /\ Slot(events, cursor) = PreHist[q]
           /\ last.ret # NoId => q # 0

\* C9 witness: a forward() whose scan crossed the wrap-around point of the
\* ring and skipped an entry.
C9_Witness ==
    /\ last.op = "forward"
    /\ last.ret # NoId
    /\ cursor < pre.cursor
    /\ Dist(max_size, pre.cursor, cursor) >= 2

\* C10: backward() returns the item of the first entry strictly before the
\* cursor, toward the oldest entry and not beyond history_start, that is
\* Active with an identifier other than that of the cursor's entry, and
\* moves the cursor to it; it returns an item only if there is such an entry.
C10_BackwardFindsNearestEarlier ==
    (last.op = "backward" /\ Returned) =>
        LET q == NearestBelow(PreHist, PrePos)
        IN /\ q # 0 =>
                /\ last.ret = PreHist[q].id
                /\ cursor = HistSlot(pre.history_start, max_size, q)
                /\ Slot(events, cursor) = PreHist[q]
           /\ last.ret # NoId => q # 0

\* C10 witness: a backward() whose scan crossed the wrap-around point of the
\* ring and skipped an entry.
C10_Witness ==
    /\ last.op = "backward"
    /\ last.ret # NoId
    /\ cursor > pre.cursor
    /\ Dist(max_size, cursor, pre.cursor) >= 2

IsNav == last.op \in {"forward", "backward"}

\* C11: a forward() or backward() that finds no qualifying entry returns
\* nothing and leaves the cursor, the entries and the Ignore-Set unchanged;
\* that is the case on an empty history, for forward() with the cursor at the
\* tail, for backward() with the cursor at the oldest entry, and whenever no
\* Active entry with another identifier lies in that direction.
C11_ExhaustedNavigationIsNoOp ==
    (IsNav /\ Returned) =>
        LET q == IF last.op = "forward" THEN NearestAbove(PreHist, PrePos)
                 ELSE NearestBelow(PreHist, PrePos)
        IN /\ (\/ Len(pre.events) = 0
               \/ (last.op = "forward" /\ pre.cursor = pre.head)
               \/ (last.op = "backward" /\ pre.cursor = pre.history_start)
               \/ q = 0) => last.ret = NoId
           /\ last.ret = NoId =>
                /\ cursor = pre.cursor
                /\ events = pre.events
                /\ ignored_events = pre.ignored_events
                /\ head = pre.head
                /\ history_start = pre.history_start

\* C11 witness: a forward() from a detached cursor that finds only entries
\* it has to skip.
C11_Witness ==
    /\ last.op = "forward"
    /\ last.ret = NoId
    /\ cursor # head
    /\ Len(events) >= 2

\* C12 as claimed: a successful backward() immediately followed by a
\* forward() puts the cursor back where it was before the backward().
C12_Original ==
    (last.op = "forward" /\ Returned /\ pre.back_from # NoIdx) =>
        cursor = pre.back_from

\* No Active entry lies strictly between slots a and b of the ring.
NoActiveBetween(ev, ms, a, b) ==
    \A k \in 1..(Dist(ms, a, b) - 1) : Slot(ev, (a + k) % ms).st # "Active"

\* C12 (as amended): a successful backward() immediately followed by a
\* forward() puts the cursor back where it was before the backward()
\* whenever that position holds an Active entry and no Active entry lies
\* strictly between it and the entry backward() landed on.
C12_BackThenForwardRestores ==
    (/\ last.op = "forward"
     /\ Returned
     /\ pre.back_from # NoIdx
     /\ Slot(events, pre.back_from).st = "Active"
     /\ NoActiveBetween(events, max_size, pre.cursor, pre.back_from)) =>
        /\ cursor = pre.back_from
        /\ last.ret = Slot(events, pre.back_from).id

\* C12 witness: the round trip over a skipped entry, across the wrap-around
\* point of the ring.
C12_Witness ==
    /\ last.op = "forward"
    /\ pre.back_from # NoIdx
    /\ cursor = pre.back_from
    /\ cursor < pre.cursor
    /\ Dist(max_size, pre.cursor, cursor) >= 2

Detached == Inserted /\ pre.events # <<>> /\ pre.cursor # pre.head

\* C13 as claimed: an add() that inserts while the cursor is not at the tail
\* drops every entry after the cursor: the history is the entries up to and
\* including the old cursor entry followed by the new Active entry, the
\* cursor is on the new entry and forward() returns nothing.
C13_TruncatedAfterCursor ==
    Detached =>
        /\ NowHist = SubSeq(PreHist, 1, PrePos) \o <<Active(last.id)>>
        /\ cursor = head
        /\ next_active_idx(events, history_start, head, max_size, cursor) = NoIdx

\* C14 as claimed: forward() and backward() never return an entry that a
\* truncation dropped, and no dropped entry is part of the history.
C14_DroppedNeverReachable ==
    /\ (IsNav /\ last.ret # NoId) => cursor \notin dead
    /\ \A k \in 1..NowLen : HistSlot(history_start, max_size, k) \notin dead

\* The call left the extent of the history where it was.
SameExtent ==
    /\ NowLen = PreLen
    /\ history_start = pre.history_start
    /\ head = pre.head

\* C15: remove(id) turns every entry of the history whose identifier is id
\* into Deleted, Active or Inactive alike, and changes no other entry, no
\* position and not the length.
C15_RemoveDeletesEveryMatch ==
    last.op = "remove" =>
        /\ SameExtent
        /\ \A k \in 1..PreLen :
              NowHist[k] = IF PreHist[k].id = last.id THEN Deleted ELSE PreHist[k]

\* C15 witness: a remove() that turned an Active and an Inactive entry of its
\* identifier into tombstones and left an Active entry of another identifier.
C15_Witness ==
    /\ last.op = "remove"
    /\ \E k, j, m \in 1..PreLen :
          /\ PreHist[k] = Active(last.id)
          /\ PreHist[j] = Inactive(last.id)
          /\ PreHist[m].st = "Active"
          /\ PreHist[m].id # last.id
          /\ NowHist[k] = Deleted
          /\ NowHist[j] = Deleted
          /\ NowHist[m] = PreHist[m]

\* From no position of the history does forward() or backward() land on an
\* entry with identifier id.
NavSkips(id) ==
    \A k \in 1..NowLen :
        LET c == HistSlot(history_start, max_size, k)
            n == next_active_idx(events, history_start, head, max_size, c)
            p == prev_active_idx(events, history_start, head, max_size, c)
        IN /\ n >= 0 => Slot(events, n).id # id
           /\ p >= 0 => Slot(events, p).id # id

\* C16: deactivate(id) turns every Active entry with identifier id into
\* Inactive, all occurrences and not only the one at the cursor, leaves the
\* Inactive and Deleted entries and the entries of other identifiers as they
\* were, and navigation skips the deactivated entries afterwards.
C16_DeactivateEveryActiveMatch ==
    last.op = "deactivate" =>
        /\ last.branch # "panic"
        /\ SameExtent
        /\ \A k \in 1..PreLen :
              NowHist[k] = IF PreHist[k] = Active(last.id)
                           THEN Inactive(last.id) ELSE PreHist[k]
        /\ NavSkips(last.id)

\* C16 witness: a deactivate() that changed two entries on either side of the
\* cursor, after which neither direction offers an entry.
C16_Witness ==
    /\ last.op = "deactivate"
    /\ \E k, j \in 1..PreLen :
          /\ k < NowPos
          /\ NowPos < j
          /\ PreHist[k] = Active(last.id)
          /\ PreHist[j] = Active(last.id)
          /\ NowHist[k] = Inactive(last.id)
          /\ NowHist[j] = Inactive(last.id)
    /\ Slot(events, cursor).st = "Active"
    /\ next_active_idx(events, history_start, head, max_size, cursor) = NoIdx
    /\ prev_active_idx(events, history_start, head, max_size, cursor) = NoIdx

\* Position k is the cursor's, or forward() or backward() lands on it from
\* some position of the history.
Reachable(k) ==
    \/ k = NowPos
    \/ \E p \in 1..NowLen :
          LET c == HistSlot(history_start, max_size, p)
              t == HistSlot(history_start, max_size, k)
          IN \/ next_active_idx(events, history_start, head, max_size, c) = t
             \/ prev_active_idx(events, history_start, head, max_size, c) = t

\* C17 as claimed: after activate(id) every Active entry of id can be reached
\* by navigation.
C17_Original ==
    last.op = "activate" =>
        \A k \in 1..NowLen : NowHist[k] = Active(last.id) => Reachable(k)

\* Every entry of identifier id was Active in ev.
AllActive(ev, id) ==
    \A i \in 1..Len(ev) : ev[i].id = id => ev[i].st = "Active"

\* C17 (as amended): activate(id) turns every Inactive entry with identifier
\* id into Active and leaves every other entry and the cursor as they were;
\* each Active entry of id is a navigation target again, that is forward()
\* and backward() land on it from every position for which it is the nearest
\* Active entry with another identifier in that direction; and an
\* activate(id) directly after a deactivate(id) restores the status of every
\* entry when all entries of id were Active before the deactivate(id).
C17_ActivateEveryInactiveMatch ==
    last.op = "activate" =>
        /\ last.branch # "panic"
        /\ SameExtent
        /\ cursor = pre.cursor
        /\ \A k \in 1..PreLen :
              NowHist[k] = IF PreHist[k] = Inactive(last.id)
                           THEN Active(last.id) ELSE PreHist[k]
        /\ \A k, p \in 1..NowLen :
              LET c == HistSlot(history_start, max_size, p)
                  t == HistSlot(history_start, max_size, k)
              IN NowHist[k] = Active(last.id) =>
                    /\ NearestBelow(NowHist, p) = k =>
                          prev_active_idx(events, history_start, head, max_size, c) = t
                    /\ NearestAbove(NowHist, p) = k =>
                          next_active_idx(events, history_start, head, max_size, c) = t
        /\ (deact_from # <<>> /\ AllActive(deact_from, last.id)) =>
              events = deact_from

\* C17 witness: an activate(id) directly after the deactivate(id) that had
\* changed two entries, which restored both, one of them being the nearest
\* earlier target seen from the cursor.
C17_Witness ==
    /\ last.op = "activate"
    /\ deact_from # <<>>
    /\ events = deact_from
    /\ \E k, j \in 1..PreLen :
          /\ k < j
          /\ PreHist[k] = Inactive(last.id)
          /\ PreHist[j] = Inactive(last.id)
          /\ NowHist[k] = Active(last.id)
          /\ NowHist[j] = Active(last.id)
          /\ NearestBelow(NowHist, NowPos) = k

\* C18: Deleted is terminal.  A slot that remove(id) made a tombstone stays
\* Deleted until an add() overwrites it, no index map entry refers to it, so
\* no activate() or deactivate() changes it or panics on it; forward() and
\* backward() return Active entries only; and an add() writes one Active
\* entry, recorded under its identifier, and changes no other slot.
C18_DeletedIsTerminal ==
    /\ fault = "none"
    /\ \A i \in DOMAIN removed :
          removed[i] # NoId =>
              /\ i < Len(events)
              /\ Slot(events, i) = Deleted
              /\ \A id \in Ids : i \notin event_idx_map[id]
    /\ (last.op \in {"activate", "deactivate"}) =>
          \A i \in 0..(Len(pre.events) - 1) :
              Slot(pre.events, i) = Deleted => Slot(events, i) = Deleted
    /\ (IsNav /\ last.ret # NoId) => Slot(events, cursor) = Active(last.ret)
    /\ Inserted =>
          /\ Slot(events, cursor) = Active(last.id)
          /\ cursor \in event_idx_map[last.id]
          /\ \A i \in 0..(Len(pre.events) - 1) :
                i # cursor => Slot(events, i) = Slot(pre.events, i)

\* C18 witness: an activate(id) that changed an entry of id added after a
\* remove(id) whose tombstone is still part of the history.
C18_Witness ==
    /\ last.op = "activate"
    /\ last.branch = "changed"
    /\ \E k, j \in 1..NowLen :
          /\ removed[HistSlot(history_start, max_size, k)] = last.id
          /\ PreHist[j] = Inactive(last.id)
          /\ NowHist[j] = Active(last.id)

\* The call changed the entry the cursor was on.
ChangedAtCursor ==
    /\ last.op \in {"remove", "deactivate"}
    /\ last.branch = "changed"
    /\ PreHist[PrePos].id = last.id
    /\ NowHist[PrePos] # PreHist[PrePos]

\* C19: when remove(id) or deactivate(id) changes the entry at the cursor and
\* an Active entry with another identifier lies before the cursor, the cursor
\* moves to the nearest such earlier entry.
C19_RealignToNearestEarlier ==
    ChangedAtCursor =>
        LET q == NearestBelow(PreHist, PrePos)
        IN q # 0 =>
              /\ NowPos = q
              /\ NowHist[q] = PreHist[q]
              /\ NowHist[q].st = "Active"
              /\ NowHist[q].id # last.id

\* C19 witness: a realignment that stepped over an entry which is not a
\* target, to an earlier entry.
C19_Witness ==
    /\ ChangedAtCursor
    /\ NearestBelow(PreHist, PrePos) # 0
    /\ NowPos = NearestBelow(PreHist, PrePos)
    /\ NowPos < PrePos - 1

\* C20 as claimed: when remove(id) or deactivate(id) changes the entry at the
\* cursor, no Active entry with another identifier lies before the cursor and
\* one lies after it, the cursor moves to the nearest such later entry.
C20_RealignToNearestLater ==
    ChangedAtCursor =>
        LET q == NearestAbove(PreHist, PrePos)
        IN (NearestBelow(PreHist, PrePos) = 0 /\ q # 0) => NowPos = q

\* The Active entries of the history with another identifier than id.
OtherActive(H, id) == {q \in 1..Len(H) : H[q].st = "Active" /\ H[q].id # id}

InactiveAt(H) == {q \in 1..Len(H) : H[q].st = "Inactive"}

Max(S) == CHOOSE x \in S : \A y \in S : y <= x

\* C21 as claimed: when remove(id) or deactivate(id) changes the entry at the
\* cursor and the history has no Active entry with another identifier, the
\* cursor moves to the most recent Inactive entry, if there is one.
C21_RealignToLatestInactive ==
    (/\ ChangedAtCursor
     /\ OtherActive(NowHist, last.id) = {}
     /\ InactiveAt(NowHist) # {}) =>
        NowPos = Max(InactiveAt(NowHist))

\* C22 as claimed: when remove(id) changes the entry at the cursor and the
\* history is left with no Active entry of another identifier and no
\* Inactive entry, the cursor is set to the oldest entry of the history.
C22_RealignToOldest ==
    (/\ ChangedAtCursor
     /\ last.op = "remove"
     /\ OtherActive(NowHist, last.id) = {}
     /\ InactiveAt(NowHist) = {}) =>
        NowPos = 1

\* C23: activate(id) never moves the cursor, and neither does a remove(id)
\* or deactivate(id) when the entry at the cursor does not carry id.
C23_CursorFrame ==
    /\ last.op = "activate" => cursor = pre.cursor
    /\ (/\ last.op \in {"remove", "deactivate"}
        /\ get_idx_id(pre.events, pre.cursor) # last.id) => cursor = pre.cursor

\* C23 witness: a remove() or deactivate() that changed an entry elsewhere
\* and left the cursor on its entry, although an earlier Active entry with
\* another identifier than the cursor's was there to step back to.
C23_Witness ==
    /\ last.op \in {"remove", "deactivate"}
    /\ last.branch = "changed"
    /\ NowHist # PreHist
    /\ get_idx_id(pre.events, pre.cursor) \notin {last.id, NoId}
    /\ cursor = pre.cursor
    /\ prev_active_idx(events, history_start, head, max_size, cursor) >= 0
    /\ steps > 0

\* No entry of the history before the call carried the call's identifier.
NoMatch == \A k \in 1..PreLen : PreHist[k].id # last.id

\* C24: remove(id), deactivate(id) and activate(id) with an identifier that
\* no entry of the history carries leave the history, the cursor and the
\* Ignore-Set as they were and raise no error.
C24_NoMatchIsNoOp ==
    (last.op \in {"remove", "deactivate", "activate"} /\ NoMatch) =>
        /\ NowHist = PreHist
        /\ SameExtent
        /\ cursor = pre.cursor
        /\ ignored_events = pre.ignored_events
        /\ last.branch # "panic"
        /\ fault = "none"

\* C24 witness: a remove() of an identifier that was added and whose only
\* entry has since been evicted by the wrap-around of a full buffer.
C24_Witness ==
    /\ last.op = "remove"
    /\ NoMatch
    /\ ~static_history
    /\ PreLen = max_size
    /\ \A k \in 1..PreLen : PreHist[k].st = "Active"
    /\ NowHist = PreHist

\* C25: the panics of deactivate() and activate() are unreachable: every
\* slot recorded in event_idx_map exists, is not Deleted and holds an entry
\* of the identifier it is recorded under, so no call ever panicked.
C25_PanicsUnreachable ==
    /\ fault # "panic"
    /\ last.branch # "panic"
    /\ \A id \in Ids : \A i \in event_idx_map[id] :
          /\ i < Len(events)
          /\ Slot(events, i).st # "Deleted"
          /\ Slot(events, i).id = id
    /\ \A id \in Ids : ~hits_deleted(events, event_idx_map[id])

\* C25 witness: an activate() that changed an entry in a buffer that has
\* wrapped around, holds a tombstone and a slot dropped by a truncation.
C25_Witness ==
    /\ last.op = "activate"
    /\ last.branch = "changed"
    /\ ~static_history
    /\ dead # {}
    /\ \E i \in 1..Len(events) : events[i] = Deleted

\* C27: add(x) with x not in the Ignore-Set and the entry at the cursor not
\* an Active entry of x inserts a new Active entry and returns the item,
\* whatever the other entries are.
C27_DuplicateOnlyAtCursor ==
    (/\ IsAdd
     /\ last.id \notin pre.ignored_events
     /\ ~(/\ pre.cursor < Len(pre.events)
          /\ Slot(pre.events, pre.cursor) = Active(last.id))) =>
        /\ last.branch = "inserted"
        /\ last.ret = last.id
        /\ Slot(events, cursor) = Active(last.id)
        /\ cursor = head

\* C27 witness: an insertion of x with the cursor on an entry that is not
\* Active while the nearest Active entry before it carries x: the history
\* then holds x twice.
C27_Witness ==
    /\ Inserted
    /\ pre.events # <<>>
    /\ Slot(pre.events, pre.cursor).st # "Active"
    /\ \E k \in 1..(PrePos - 1) :
          /\ PreHist[k] = Active(last.id)
          /\ \A j \in (k + 1)..PrePos : PreHist[j].st # "Active"
          /\ NowHist[k] = Active(last.id)
    /\ NowHist[NowLen] = Active(last.id)

\* ======================================================================
\* HistorySize (event_history.rs): the only way to a capacity.  A conversion
\* is asked for with a usize or with a string (the --history-size argument,
\* cli.rs), and EventHistory::new takes the HistorySize it returned.
\* Strings are sequences of characters of Alphabet.
\* ======================================================================
Alphabet == {"0", "1", "9", "+", "-", "a", " "}

Strings == UNION {[1..k -> Alphabet] : k \in 0..MaxStrLen}

Ok(n) == [tag |-> "Ok", n |-> n]
Err == [tag |-> "Err", n |-> 0]

\* char::to_digit(10), -1 for None
to_digit(c) == CASE c = "0" -> 0 [] c = "1" -> 1 [] c = "9" -> 9 [] OTHER -> -1

\* the digit loop of usize::from_str_radix(src, 10); a string of at most
\* MaxStrLen digits does not overflow a usize
RECURSIVE parse_digits(_, _)
parse_digits(digits, result) ==
    IF digits = <<>> THEN Ok(result)
    ELSE IF to_digit(Head(digits)) < 0 THEN Err
    ELSE parse_digits(Tail(digits), result * 10 + to_digit(Head(digits)))

\* usize::from_str: empty is an error, so is a lone sign; a leading "+" is
\* skipped, a leading "-" is not (the type is unsigned) and fails as a digit
usize_from_str(src) ==
    IF src = <<>> THEN Err
    ELSE IF src = <<"+">> \/ src = <<"-">> THEN Err
    ELSE parse_digits(IF Head(src) = "+" THEN Tail(src) ELSE src, 0)

\* NonZeroUsize::new
nonzero_new(value) == IF value = 0 THEN Err ELSE Ok(value)

\* mutant: a capacity of zero is clamped to one
try_from_clamped(value) == Ok(IF value = 0 THEN 1 ELSE value)

\* impl TryFrom<usize> for HistorySize
try_from(value) == nonzero_new(value)

\* impl FromStr for HistorySize: s.parse::<NonZeroUsize>()
from_str(s) ==
    IF usize_from_str(s).tag = "Err" THEN Err ELSE nonzero_new(usize_from_str(s).n)

SizeInputs ==
    {[kind |-> "usize", n |-> n, s |-> <<>>] : n \in 0..MaxUsize}
    \cup {[kind |-> "str", n |-> 0, s |-> s] : s \in Strings}

InitSize ==
    /\ InitHistory
    /\ size_input \in SizeInputs
    /\ size_result = NoResult
    /\ adapter = "daemon"
    /\ requested_monitors = {}
    /\ InitTasks
    /\ InitOther

TryFrom ==
    /\ size_input.kind = "usize"
    /\ size_result = NoResult
    /\ size_result' = try_from(size_input.n)
    /\ UNCHANGED <<hist, last, pre, swallowed, back_from, dead, deact_from,
                   removed, phase, pending, steps, size_input, procv,
                   otherv>>

FromStr ==
    /\ size_input.kind = "str"
    /\ size_result = NoResult
    /\ size_result' = from_str(size_input.s)
    /\ UNCHANGED <<hist, last, pre, swallowed, back_from, dead, deact_from,
                   removed, phase, pending, steps, size_input, procv,
                   otherv>>

\* EventHistory::new(max_size) with the HistorySize a conversion returned
New ==
    /\ size_result.tag = "Ok"
    /\ max_size' = size_result.n
    /\ cursor' = 0
    /\ head' = 0
    /\ history_start' = 0
    /\ static_history' = TRUE
    /\ events' = <<>>
    /\ event_idx_map' = [i \in WideIds |-> {}]
    /\ ignored_events' = {}
    /\ fault' = "none"
    /\ last' = NoCall
    /\ pre' = [cursor |-> 0, head |-> 0, history_start |-> 0,
               static_history |-> TRUE, events |-> <<>>,
               event_idx_map |-> [i \in WideIds |-> {}], ignored_events |-> {},
               swallowed |-> {}, back_from |-> NoIdx]
    /\ swallowed' = {}
    /\ back_from' = NoIdx
    /\ dead' = {}
    /\ deact_from' = <<>>
    /\ removed' = [i \in 0..(size_result.n - 1) |-> NoId]
    /\ UNCHANGED <<phase, pending, side>>

NextSize ==
    \/ TryFrom
    \/ FromStr
    \/ New

SpecSize == InitSize /\ [][NextSize]_vars

\* ======================================================================
\* The two tasks around the shared history (main.rs try_join!).
\* Event feed (daemon.rs run / hypr_events.rs listen): the host's event
\* listener hands the focus notifications to the handler one at a time, in
\* arrival order (inbox); the handler asks the host for the clients, then
\* takes the lock and calls add().  Navigation (socket.rs): every client
\* connection is a task of its own that reads a request, takes the lock,
\* calls forward() or backward(), gives the lock back and then issues the
\* focus command.  adapter says which of the two feed handlers is running.
\* Positions: "idle" (waiting for input), "query" (host query in progress),
\* "lock" (waiting for the lock), "call" (lock held, call not yet made),
\* "release" (call made, guard not yet dropped), "dispatch" (focus command
\* in progress).
\* ======================================================================
QueryFailed == -1

\* mutant: lock() never waits
lock_free_always(h) == TRUE

\* Mutex::lock() returns once nobody holds the guard
lock_free(h) == h = {}

\* mutant: the guard outlives the block
holders_kept(h, p) == h

\* the guard is dropped
holders_after_release(h, p) == h \ {p}

OpOf(p) ==
    IF p = Feed THEN "add"
    ELSE IF instruction_of[p] = "next" THEN "forward" ELSE "backward"

InitLock ==
    /\ InitHistory
    /\ InitNoSize
    /\ adapter \in {"daemon", "hypr_events"}
    /\ requested_monitors \in SUBSET Monitors
    /\ InitTasks
    /\ InitOther

\* the host reports a focus change; NoId is a report without a window
Notify(id) ==
    /\ Len(arrived) < MaxBurst
    /\ inbox' = Append(inbox, id)
    /\ arrived' = Append(arrived, id)
    /\ UNCHANGED <<hist, last, pre, swallowed, back_from, dead, deact_from,
                   removed, phase, pending, steps, sizev, adapter,
                   requested_monitors, holders, pc, window_event_data,
                   instruction_of, next_address, requests, handled, acquired,
                   applied>>
    /\ UNCHANGED dispatched
    /\ UNCHANGED otherv

\* the handler starts on the next notification
FeedTake ==
    /\ pc[Feed] = "idle"
    /\ inbox # <<>>
    /\ inbox' = Tail(inbox)
    /\ IF Head(inbox) = NoId
       THEN /\ handled' = Append(handled, [id |-> NoId, fate |-> "empty",
                                           query |-> "none", monitor |-> NoMonitor])
            /\ UNCHANGED <<pc, window_event_data>>
       ELSE /\ window_event_data' = [id |-> Head(inbox), monitor |-> NoMonitor,
                                     query |-> "none"]
            /\ pc' = [pc EXCEPT ![Feed] = "query"]
            /\ UNCHANGED handled
    /\ UNCHANGED <<hist, last, pre, swallowed, back_from, dead, deact_from,
                   removed, phase, pending, steps, sizev, adapter,
                   requested_monitors, holders, instruction_of, next_address,
                   requests, arrived, acquired, applied>>
    /\ UNCHANGED dispatched
    /\ UNCHANGED otherv

\* Clients::get_async() returns: an error, or the monitor of the window
FeedQuery(outcome) ==
    /\ pc[Feed] = "query"
    /\ IF adapter = "daemon" /\ outcome = QueryFailed THEN
           /\ handled' = Append(handled, [id |-> window_event_data.id,
                                          fate |-> "query_failed",
                                          query |-> "err", monitor |-> NoMonitor])
           /\ window_event_data' = NoEvent
           /\ pc' = [pc EXCEPT ![Feed] = "idle"]
       ELSE IF /\ adapter = "daemon"
               /\ requested_monitors # {}
               /\ outcome # NoMonitor
               /\ outcome \in requested_monitors THEN
           /\ handled' = Append(handled, [id |-> window_event_data.id,
                                          fate |-> "filtered",
                                          query |-> "ok", monitor |-> outcome])
           /\ window_event_data' = NoEvent
           /\ pc' = [pc EXCEPT ![Feed] = "idle"]
       ELSE
           /\ window_event_data' =
                 [window_event_data EXCEPT
                     !.monitor = IF outcome = QueryFailed THEN NoMonitor ELSE outcome,
                     !.query = IF outcome = QueryFailed THEN "err" ELSE "ok"]
           /\ pc' = [pc EXCEPT ![Feed] = "lock"]
           /\ UNCHANGED handled
    /\ UNCHANGED <<hist, last, pre, swallowed, back_from, dead, deact_from,
                   removed, phase, pending, steps, sizev, adapter,
                   requested_monitors, holders, inbox, instruction_of,
                   next_address, requests, arrived, acquired, applied>>
    /\ UNCHANGED dispatched
    /\ UNCHANGED otherv

\* a client connection reads one line
Request(c, instruction) ==
    /\ pc[c] = "idle"
    /\ requests < MaxRequests
    /\ requests' = requests + 1
    /\ IF instruction = "null"
       THEN UNCHANGED <<pc, instruction_of>>
       ELSE /\ instruction_of' = [instruction_of EXCEPT ![c] = instruction]
            /\ pc' = [pc EXCEPT ![c] = "lock"]
    /\ UNCHANGED <<hist, last, pre, swallowed, back_from, dead, deact_from,
                   removed, phase, pending, steps, sizev, adapter,
                   requested_monitors, holders, inbox, window_event_data,
                   next_address, arrived, handled, acquired, applied>>
    /\ UNCHANGED dispatched
    /\ UNCHANGED otherv

\* focus_events.lock()
Acquire(p) ==
    /\ pc[p] = "lock"
    /\ lock_free(holders)
    /\ holders' = holders \cup {p}
    /\ acquired' = Append(acquired, [task |-> p, op |-> OpOf(p)])
    /\ pc' = [pc EXCEPT ![p] = "call"]
    /\ UNCHANGED <<hist, last, pre, swallowed, back_from, dead, deact_from,
                   removed, phase, pending, steps, sizev, adapter,
                   requested_monitors, inbox, window_event_data, instruction_of,
                   next_address, requests, arrived, handled, applied>>
    /\ UNCHANGED dispatched
    /\ UNCHANGED otherv

\* event_history.add(window_event)
FeedAdd ==
    /\ pc[Feed] = "call"
    /\ fault = "none"
    /\ AddCall(window_event_data.id, "add")
    /\ pre' = Snap
    /\ Track
    /\ applied' = Append(applied, [task |-> Feed, op |-> "add", ret |-> last'.ret])
    /\ handled' = Append(handled, [id |-> window_event_data.id, fate |-> "added",
                                   query |-> window_event_data.query,
                                   monitor |-> window_event_data.monitor])
    /\ pc' = [pc EXCEPT ![Feed] = "release"]
    /\ UNCHANGED <<phase, pending, steps, sizev, adapter, requested_monitors,
                   holders, inbox, window_event_data, instruction_of,
                   next_address, requests, arrived, acquired>>
    /\ UNCHANGED dispatched
    /\ UNCHANGED otherv

\* history.forward() / history.backward()
Navigate(c) ==
    /\ pc[c] = "call"
    /\ fault = "none"
    /\ IF instruction_of[c] = "next"
       THEN NavCall(next_active_idx(events, history_start, head, max_size, cursor),
                    "forward")
       ELSE NavCall(prev_active_idx(events, history_start, head, max_size, cursor),
                    "backward")
    /\ pre' = Snap
    /\ Track
    /\ applied' = Append(applied, [task |-> c, op |-> OpOf(c), ret |-> last'.ret])
    /\ next_address' = [next_address EXCEPT ![c] = last'.ret]
    /\ pc' = [pc EXCEPT ![c] = "release"]
    /\ UNCHANGED <<phase, pending, steps, sizev, adapter, requested_monitors,
                   holders, inbox, window_event_data, instruction_of, requests,
                   arrived, handled, acquired>>
    /\ UNCHANGED dispatched
    /\ UNCHANGED otherv

\* mutant: a focus command is issued whatever the call returned
after_navigation_always(addr) == "dispatch"

\* if let Some(addr) = next_address { Dispatch ... } else { info!(...) }
after_navigation(addr) == IF addr # NoId THEN "dispatch" ELSE "idle"

\* the guard goes out of scope
Release(p) ==
    /\ pc[p] = "release"
    /\ holders' = holders_after_release(holders, p)
    /\ pc' = [pc EXCEPT ![p] = IF p \in Clients
                                THEN after_navigation(next_address[p]) ELSE "idle"]
    /\ window_event_data' = IF p = Feed THEN NoEvent ELSE window_event_data
    /\ UNCHANGED <<hist, last, pre, swallowed, back_from, dead, deact_from,
                   removed, phase, pending, steps, sizev, adapter,
                   requested_monitors, inbox, instruction_of, next_address,
                   requests, arrived, handled, acquired, applied>>
    /\ UNCHANGED dispatched
    /\ UNCHANGED otherv

\* Dispatch::call_async(FocusWindow(addr)); the host may report the focus
\* change it causes
Dispatch(c, reported) ==
    /\ pc[c] = "dispatch"
    /\ IF reported /\ Len(arrived) < MaxBurst
       THEN /\ inbox' = Append(inbox, next_address[c])
            /\ arrived' = Append(arrived, next_address[c])
       ELSE UNCHANGED <<inbox, arrived>>
    /\ dispatched' = Append(dispatched, [task |-> c, addr |-> next_address[c]])
    /\ next_address' = [next_address EXCEPT ![c] = NoId]
    /\ pc' = [pc EXCEPT ![c] = "idle"]
    /\ UNCHANGED <<hist, last, pre, swallowed, back_from, dead, deact_from,
                   removed, phase, pending, steps, sizev, adapter,
                   requested_monitors, holders, window_event_data,
                   instruction_of, requests, handled, acquired, applied>>
    /\ UNCHANGED otherv

NextLock ==
    \/ \E id \in Ids \cup {NoId} : Notify(id)
    \/ FeedTake
    \/ \E outcome \in {QueryFailed, NoMonitor} \cup Monitors : FeedQuery(outcome)
    \/ \E c \in Clients : \E instruction \in {"next", "prev", "null"} :
          Request(c, instruction)
    \/ \E p \in Tasks : Acquire(p)
    \/ FeedAdd
    \/ \E c \in Clients : Navigate(c)
    \/ \E p \in Tasks : Release(p)
    \/ \E c \in Clients : \E reported \in BOOLEAN : Dispatch(c, reported)

SpecLock == InitLock /\ [][NextLock]_vars

\* ======================================================================
\* The event feed alone, with the host's other reports: a window was closed,
\* a window left the tracked monitors, a window entered them.  The listener
\* is given one handler, for the active window (daemon.rs line 86,
\* hypr_events.rs line 12); a report of another kind finds no handler and
\* leads to no call.
\* ======================================================================
SignalKinds == {"closed", "left", "entered"}

Signal(kind, id) ==
    /\ Len(signals) < MaxBurst
    /\ signals' = Append(signals, [kind |-> kind, id |-> id, call |-> "none"])
    /\ UNCHANGED <<hist, last, pre, swallowed, back_from, dead, deact_from,
                   removed, phase, pending, steps, sizev, procv, startv, sockv>>

NextFeed ==
    \/ \E id \in Ids \cup {NoId} : Notify(id)
    \/ \E kind \in SignalKinds : \E id \in Ids : Signal(kind, id)
    \/ FeedTake
    \/ \E outcome \in {QueryFailed, NoMonitor} \cup Monitors : FeedQuery(outcome)
    \/ Acquire(Feed)
    \/ FeedAdd
    \/ Release(Feed)

SpecFeed == InitLock /\ [][NextFeed]_vars

\* A string that writes an integer: an optional sign and at least one digit.
Digits == {"0", "1", "9"}

Unsigned(s) == IF s # <<>> /\ Head(s) \in {"+", "-"} THEN Tail(s) ELSE s

IsNumeral(s) == Unsigned(s) # <<>> /\ \A i \in DOMAIN Unsigned(s) : Unsigned(s)[i] \in Digits

RECURSIVE Pow10(_)
Pow10(k) == IF k = 0 THEN 1 ELSE 10 * Pow10(k - 1)

RECURSIVE SumOver(_, _)
SumOver(s, I) ==
    IF I = {} THEN 0
    ELSE LET i == CHOOSE j \in I : TRUE
         IN to_digit(s[i]) * Pow10(Len(s) - i) + SumOver(s, I \ {i})

\* the integer a numeral writes
NumeralValue(s) ==
    (IF Head(s) = "-" THEN -1 ELSE 1) * SumOver(Unsigned(s), DOMAIN Unsigned(s))

\* C26: a capacity is always positive: converting the usize 0, or a string
\* that writes no integer or writes one that is not positive, into a
\* HistorySize returns an error; a conversion that succeeds returns the
\* value it was given, unclamped; every HistorySize, and so the max_size of
\* every history, is at least 1.
C26_PositiveCapacity ==
    /\ max_size >= 1
    /\ size_result.tag = "Ok" => size_result.n >= 1
    /\ (size_input.kind = "usize" /\ size_result # NoResult) =>
           /\ size_input.n = 0 => size_result = Err
           /\ size_result.tag = "Ok" => size_result.n = size_input.n
    /\ (size_input.kind = "str" /\ size_result # NoResult) =>
           /\ ~IsNumeral(size_input.s) => size_result = Err
           /\ (IsNumeral(size_input.s) /\ NumeralValue(size_input.s) <= 0) =>
                  size_result = Err
           /\ size_result.tag = "Ok" =>
                  /\ IsNumeral(size_input.s)
                  /\ size_result.n = NumeralValue(size_input.s)

\* the usize 0 has been converted and refused
C26_Witness ==
    /\ size_input.kind = "usize"
    /\ size_input.n = 0
    /\ size_result = Err

\* the first n entries of a log
Prefix(log, n) == SubSeq(log, 1, n)

\* a log without what the call returned
Calls(log) == [i \in DOMAIN log |-> [task |-> log[i].task, op |-> log[i].op]]

\* the task is waiting for, or busy with, something outside the process
InIO(p) == pc[p] \in {"idle", "query", "dispatch"}

\* C28: every add(), forward() and backward() of the two paths is made by a
\* task that holds the lock, at most one task holds the lock at a time, and
\* the calls applied to the history so far are, one for one and in the same
\* order, the calls of the tasks that acquired the lock (each call is made
\* on the history the previous holder left), the last acquisition being
\* the only one whose call may still be outstanding.
C28_LinearizedInLockOrder ==
    /\ Cardinality(holders) <= 1
    /\ \A p \in Tasks : pc[p] \in {"call", "release"} <=> p \in holders
    /\ Len(applied) <= Len(acquired)
    /\ Calls(applied) = Prefix(acquired, Len(applied))
    /\ Len(acquired) - Len(applied) = Cardinality({p \in Tasks : pc[p] = "call"})
    /\ applied # <<>> =>
           /\ last.op = applied[Len(applied)].op
           /\ last.ret = applied[Len(applied)].ret

\* a client's call is outstanding while the feed has a notification in hand
\* and an earlier call of another client has already been applied
C28_Witness ==
    /\ \E c \in Clients : pc[c] = "call"
    /\ pc[Feed] = "lock"
    /\ \E i \in DOMAIN applied : applied[i].task = Feed
    /\ \E i \in DOMAIN applied : applied[i].task \in Clients

\* C29: no task holds the lock while it waits for input, for the host's
\* answer to a query or for a focus command; the focus command of a client
\* is issued for the identifier its call returned under the lock; the feed
\* has the host's answer before it asks for the lock.
C29_NoLockAcrossIO ==
    /\ \A p \in Tasks : InIO(p) => p \notin holders
    /\ \A c \in Clients : pc[c] = "dispatch" =>
           /\ next_address[c] # NoId
           /\ \E i \in DOMAIN applied :
                  /\ applied[i].task = c
                  /\ applied[i].ret = next_address[c]
                  /\ \A j \in DOMAIN applied : j > i => applied[j].task # c
    /\ pc[Feed] = "query" => window_event_data.monitor = NoMonitor
    /\ Feed \in holders => pc[Feed] \notin {"idle", "query", "lock"}

\* a focus command is in progress while another task holds the lock
C29_Witness ==
    \E c \in Clients :
        /\ pc[c] = "dispatch"
        /\ \E p \in Tasks \ {c} : p \in holders /\ pc[p] = "call"

\* the notifications the handler is done with, without the reports that
\* carry no window and those the scope filter took out
Due ==
    SelectSeq(handled, LAMBDA h : h.fate \notin {"empty", "filtered"})

FeedAdds == SelectSeq(applied, LAMBDA a : a.task = Feed)

\* C30: every focus notification of a burst that the handler is done with
\* has been given to add(), in arrival order: as many add() calls as
\* notifications, none of them left out.
C30_BurstAppliedInOrder ==
    /\ Len(FeedAdds) = Len(Due)
    /\ \A i \in DOMAIN Due : Due[i].fate = "added"
    /\ [i \in DOMAIN handled |-> handled[i].id] = Prefix(arrived, Len(handled))

\* the calls of a client that returned an identifier, and the focus commands
\* issued for it
Owed(c) == SelectSeq(applied, LAMBDA a : a.task = c /\ a.ret # NoId)

Issued(c) == SelectSeq(dispatched, LAMBDA d : d.task = c)

\* the last call of the client returned an identifier and its focus command
\* has not been issued yet
Owing(c) == pc[c] \in {"release", "dispatch"} /\ next_address[c] # NoId

\* C31: the focus commands issued for a client's requests are, one for one
\* and in order, the identifiers its forward()/backward() calls returned
\* (the command for the last call may still be outstanding); a call that
\* returned nothing is followed by no command.
C31_OneCommandPerSuccess ==
    \A c \in Clients :
        /\ Len(Issued(c)) = Len(Owed(c)) - (IF Owing(c) THEN 1 ELSE 0)
        /\ \A i \in DOMAIN Issued(c) : Issued(c)[i].addr = Owed(c)[i].ret
        /\ pc[c] = "dispatch" => next_address[c] # NoId

\* a client has had a command issued for one request and none for another,
\* whose call returned nothing
C31_Witness ==
    \E c \in Clients :
        /\ Len(Issued(c)) = 1
        /\ pc[c] = "idle"
        /\ \E i \in DOMAIN applied : applied[i].task = c /\ applied[i].ret = NoId

\* ======================================================================
\* Start of the daemon (main.rs lines 45-63): the host is asked for the
\* focused window (active_client, NoEvent when there is none or the query
\* failed) and the history is made by EventHistory::bootstrap or
\* EventHistory::new.  Afterwards the calls of the history go on.
\* ======================================================================
ActiveClients ==
    {NoEvent} \cup {[id |-> id, monitor |-> m, query |-> "ok"] :
                       id \in Ids, m \in {NoMonitor} \cup Monitors}

InitStart ==
    /\ InitHistory
    /\ InitNoSize
    /\ adapter = "daemon"
    /\ requested_monitors \in SUBSET Monitors
    /\ InitTasks
    /\ signals = <<>>
    /\ active_client \in ActiveClients
    /\ started = FALSE
    /\ tmp_sockets = {requested_monitors}
    /\ socket_step = "listening"
    /\ to_scan = {}
    /\ unlinked = <<>>

\* Some(event) if requested_monitor_ids.contains(&event.monitor)
seeds(requested, event) == event.id # NoId /\ event.monitor \in requested

Startup ==
    /\ ~started
    /\ started' = TRUE
    /\ IF seeds(requested_monitors, active_client)
       THEN \* EventHistory::bootstrap: new, then add(init)
            /\ AddCall(active_client.id, "bootstrap")
            /\ pre' = Snap
            /\ Track
       ELSE UNCHANGED <<hist, last, pre, swallowed, back_from, dead, deact_from,
                        removed>>
    /\ UNCHANGED <<phase, pending, steps, sizev, procv, signals, active_client,
                   sockv>>

NextStart ==
    \/ Startup
    \/ started /\ \E item \in Ids : Add(item)
    \/ started /\ Forward
    \/ started /\ Backward

SpecStart == InitStart /\ [][NextStart]_vars

\* the daemon has just started: no call has been made on the history since
JustStarted == started /\ last.op \in {"new", "bootstrap"}

\* the focused window lies in the tracked scope
InScope(event) ==
    /\ event.id # NoId
    /\ requested_monitors = {} \/ event.monitor \in requested_monitors

\* C34: when the daemon has just started with a focused window that lies in
\* the tracked scope (any window if no monitor was requested), the history
\* holds exactly one entry, Active, for that window, the cursor is on it
\* and the Ignore-Set is empty.
C34_SeededAtStart ==
    (JustStarted /\ InScope(active_client)) =>
        /\ events = <<Active(active_client.id)>>
        /\ cursor = 0
        /\ head = 0
        /\ ignored_events = {}

\* ======================================================================
\* Set-up of the navigation socket (socket.rs listen, lines 193-205).  A
\* socket is named after the sorted monitor names of its daemon
\* (generate_socket_path), so a socket file is represented by that set of
\* names, the empty set being the socket for all monitors.  tmp_sockets are
\* the socket files in /tmp, to_scan the directory entries read_dir has
\* still to yield, unlinked the files removed so far.
\* ======================================================================
SocketMonitors == 1..NumSocketMonitors

FOCUS_SOCKET_PATH_ALL == {}

\* generate_socket_path
generate_socket_path(input) == input

\* the names of a socket path in the order split("::") yields them
RECURSIVE monitor_strs(_)
monitor_strs(path) ==
    IF path = {} THEN <<>>
    ELSE LET m == CHOOSE x \in path : \A y \in path : x <= y
         IN <<m>> \o monitor_strs(path \ {m})

\* fs::remove_file(path)?: an error if the file is not there
remove_file(fs, path) ==
    IF fs.err THEN fs
    ELSE IF path \in fs.files
         THEN [files |-> fs.files \ {path}, log |-> Append(fs.log, path), err |-> FALSE]
         ELSE [fs EXCEPT !.err = TRUE]

\* for monitor_str in monitor_strs.split("::") { if requested contains it
\* { remove_file(entry.path())? } }
RECURSIVE remove_per_monitor(_, _, _, _)
remove_per_monitor(strs, requested, path, fs) ==
    IF strs = <<>> \/ fs.err THEN fs
    ELSE remove_per_monitor(Tail(strs), requested, path,
                            IF Head(strs) \in requested
                            THEN remove_file(fs, path) ELSE fs)

\* the body of the directory loop of remove_overlapping_focus_sockets
scan_entry(requested, path, fs) ==
    IF requested = {} THEN
        IF path # FOCUS_SOCKET_PATH_ALL THEN remove_file(fs, path) ELSE fs
    ELSE
        LET fs1 == remove_per_monitor(monitor_strs(path), requested, path, fs)
        IN IF ~fs1.err /\ path = FOCUS_SOCKET_PATH_ALL
           THEN remove_file(fs1, path) ELSE fs1

InitSock ==
    /\ InitHistory
    /\ InitNoSize
    /\ adapter = "daemon"
    /\ requested_monitors \in SUBSET SocketMonitors
    /\ InitTasks
    /\ signals = <<>>
    /\ active_client = NoEvent
    /\ started = TRUE
    /\ tmp_sockets \in {fs \in SUBSET (SUBSET SocketMonitors) :
                            Cardinality(fs) <= MaxSockets}
    /\ socket_step = "cleanup"
    /\ to_scan = {}
    /\ unlinked = <<>>

SockFrame ==
    UNCHANGED <<hist, last, pre, swallowed, back_from, dead, deact_from, removed,
                phase, pending, steps, sizev, procv, signals, startv>>

\* cleanup_socket(&socket_path), then fs::read_dir(TMP_PATH)
CleanupSocket ==
    /\ socket_step = "cleanup"
    /\ LET path == generate_socket_path(requested_monitors)
           fs == IF path \in tmp_sockets
                 THEN remove_file([files |-> tmp_sockets, log |-> unlinked,
                                   err |-> FALSE], path)
                 ELSE [files |-> tmp_sockets, log |-> unlinked, err |-> FALSE]
       IN /\ tmp_sockets' = fs.files
          /\ unlinked' = fs.log
          /\ to_scan' = fs.files
    /\ socket_step' = "scan"
    /\ SockFrame

\* one turn of `while let Some(entry) = directory.next_entry().await?`
ScanEntry(entry) ==
    /\ socket_step = "scan"
    /\ entry \in to_scan
    /\ LET fs == scan_entry(requested_monitors, entry,
                            [files |-> tmp_sockets, log |-> unlinked, err |-> FALSE])
       IN /\ tmp_sockets' = fs.files
          /\ unlinked' = fs.log
          /\ socket_step' = IF fs.err THEN "failed" ELSE "scan"
    /\ to_scan' = to_scan \ {entry}
    /\ SockFrame

\* UnixListener::bind(&socket_path)
Bind ==
    /\ socket_step = "scan"
    /\ to_scan = {}
    /\ tmp_sockets' = tmp_sockets \cup {generate_socket_path(requested_monitors)}
    /\ socket_step' = "listening"
    /\ UNCHANGED <<to_scan, unlinked>>
    /\ SockFrame

NextSock ==
    \/ CleanupSocket
    \/ \E entry \in SUBSET SocketMonitors : ScanEntry(entry)
    \/ Bind

SpecSock == InitSock /\ [][NextSock]_vars

\* two sockets whose daemons would track a common monitor
Overlap(a, b) == a = {} \/ b = {} \/ a \cap b # {}

\* C36: the set-up of the socket never fails, no socket file is removed
\* twice, only sockets overlapping the requested monitors are removed, and
\* once the daemon listens its own socket is the only one left that
\* overlaps the requested monitors.
C36_OverlappingSocketsRemovedOnce ==
    /\ socket_step # "failed"
    /\ \A i, j \in DOMAIN unlinked : i # j => unlinked[i] # unlinked[j]
    /\ \A i \in DOMAIN unlinked : Overlap(unlinked[i], requested_monitors)
    /\ socket_step = "listening" =>
           \A path \in tmp_sockets :
               Overlap(path, requested_monitors) => path = requested_monitors

\* the call the feed owes for a report
CallFor(kind) ==
    CASE kind = "closed" -> "remove"
      [] kind = "left" -> "deactivate"
      [] kind = "entered" -> "activate"

\* C32: every report of the host that the feed is done with has been
\* applied to the history: a closed window by remove(), a window that left
\* the tracked scope by deactivate(), one that entered it by activate(), and
\* a focused window (within the scope) by add().
C32_EveryKindApplied ==
    /\ \A i \in DOMAIN signals : signals[i].call = CallFor(signals[i].kind)
    /\ \A i \in DOMAIN handled :
           handled[i].fate \notin {"empty", "filtered"} => handled[i].fate = "added"

\* C33: of the focus notifications for which the host named the window's
\* monitor, a daemon without restriction records every one; a daemon
\* restricted to a set of monitors records those on a requested monitor and
\* none on another monitor.
C33_ScopeFilter ==
    \A i \in DOMAIN handled :
        (handled[i].fate # "empty" /\ handled[i].query = "ok") =>
            /\ requested_monitors = {} => handled[i].fate = "added"
            /\ (requested_monitors # {} /\ handled[i].monitor \in requested_monitors)
                   => handled[i].fate = "added"
            /\ (/\ requested_monitors # {}
                /\ handled[i].monitor \in Monitors \ requested_monitors)
                   => handled[i].fate # "added"

\* C35: a focus notification whose host query failed has still been given
\* to add(), as an item without monitor.
C35_FailedQueryStillAdded ==
    \A i \in DOMAIN handled :
        handled[i].query = "err" =>
            /\ handled[i].fate = "added"
            /\ handled[i].monitor = NoMonitor

\* C37: after an add() that returned the item, the cursor equals head and
\* the entry under it is Active and holds the item; a forward() made while
\* the cursor is on head (so before anything moved it backward) returns
\* nothing and leaves the cursor where it is.
C37_AddLandsOnHead ==
    /\ (last.op = "add" /\ last.ret # NoId) =>
           /\ last.ret = last.id
           /\ cursor = head
           /\ cursor < Len(events)
           /\ Slot(events, cursor) = Active(last.id)
    /\ (last.op = "forward" /\ pre.cursor = pre.head) =>
           /\ last.ret = NoId
           /\ cursor = pre.cursor

\* an add() has just overwritten a slot of a full buffer while the cursor
\* was behind head
C37_Witness ==
    /\ last.op = "add"
    /\ last.ret # NoId
    /\ Len(pre.events) = max_size
    /\ pre.cursor # pre.head
    /\ max_size > 1

\* C38: the identifier-to-index map and the buffer agree: every index
\* recorded for an identifier is a slot of the buffer holding an Active or
\* Inactive entry of that identifier, and every slot holding an Active or
\* Inactive entry is recorded under the identifier of its entry.
C38_MapMatchesBuffer ==
    /\ \A id \in DOMAIN event_idx_map : \A idx \in event_idx_map[id] :
           /\ idx \in 0..(Len(events) - 1)
           /\ Slot(events, idx) \in {Active(id), Inactive(id)}
    /\ \A idx \in 0..(Len(events) - 1) :
           Slot(events, idx).st \in {"Active", "Inactive"} =>
               idx \in event_idx_map[Slot(events, idx).id]

\* a slot that held an entry of another identifier has been overwritten
\* after a remove() elsewhere in the buffer
C38_Witness ==
    /\ last.op = "add"
    /\ last.branch = "inserted"
    /\ Len(pre.events) = max_size
    /\ pre.events[cursor + 1].st \in {"Active", "Inactive"}
    /\ pre.events[cursor + 1].id # last.id
    /\ \E i \in DOMAIN events : events[i] = Deleted

\* C39: in every reachable state the scans of forward() and backward() come
\* to an end within one round of the ring (at most max_size slots looked at,
\* then the boundary), and no call made so far has run on for ever.
C39_NavigationTerminates ==
    /\ fault # "hang"
    /\ last.branch # "hang"
    /\ next_active_idx(events, history_start, head, max_size, cursor) # Diverged
    /\ prev_active_idx(events, history_start, head, max_size, cursor) # Diverged
    /\ Len(events) > 0 =>
           /\ find_loop(events, history_start, head, max_size,
                        get_idx_id(events, cursor), cursor,
                        next_idx(max_size, head), "next", max_size) # Diverged
           /\ find_loop(events, history_start, head, max_size,
                        get_idx_id(events, cursor), cursor,
                        prev_idx(max_size, history_start), "prev", max_size) # Diverged

\* a backward() has scanned a full, wrapped-around ring without finding an
\* entry to land on
C39_Witness ==
    /\ last.op = "backward"
    /\ last.ret = NoId
    /\ max_size > 1
    /\ Len(events) = max_size
    /\ history_start = next_idx(max_size, head)
    /\ cursor = head

\* C40: an identifier in the Ignore-Set leaves it only through an add() of
\* that identifier: remove(), deactivate() and activate() leave the set as
\* it is, navigation only adds to it (nothing when it fails), an add() of
\* another identifier takes nothing out; and an add() of an identifier that
\* is in the set is swallowed, whatever happened to its entries since.
C40_IgnoreSetFrame ==
    /\ last.op \in {"remove", "deactivate", "activate"} =>
           ignored_events = pre.ignored_events
    /\ last.op \in {"forward", "backward"} =>
           /\ pre.ignored_events \subseteq ignored_events
           /\ last.ret = NoId => ignored_events = pre.ignored_events
    /\ last.op = "add" =>
           /\ ignored_events \subseteq pre.ignored_events
           /\ pre.ignored_events \ {last.id} \subseteq ignored_events
           /\ last.id \in pre.ignored_events =>
                  /\ last.branch = "ignored"
                  /\ last.ret = NoId
                  /\ last.id \notin ignored_events

\* an add() is swallowed although every entry of its identifier has been
\* removed since navigation landed on it, while another identifier stays
\* in the Ignore-Set
C40_Witness ==
    /\ last.op = "add"
    /\ last.branch = "ignored"
    /\ event_idx_map[last.id] = {}
    /\ ignored_events # {}
====
